---- MODULE Spec2Model ----
(***************************************************************************)
(* Model of the game-tracker bot of main.go: the DataStore (Users,         *)
(* protected by the mutex mu), the persisted file game_data.json, and the  *)
(* goroutines that touch them: the presenceUpdate and messageCreate        *)
(* handlers that the Discord session runs concurrently, and main, which    *)
(* saves at shutdown.                                                       *)
(*                                                                         *)
(* Time is counted in ticks, TicksPerSecond to the second.  time.Time      *)
(* values are compared and subtracted by their monotonic reading, as       *)
(* time.Time.Sub does, so one clock stands for time.Now(): `now` is its    *)
(* last reading, and a reading is never before the one before it.          *)
(* GameSession.Duration (float64 seconds) is kept as a number of ticks,    *)
(* i.e. the exact fraction Duration / TicksPerSecond of a second.          *)
(***************************************************************************)
EXTENDS Integers, Sequences, FiniteSets, TLC

\* ---- bounds of the model ------------------------------------------------
\* handler goroutines that may run at the same time
MaxHandlers == 2
\* events the session delivers in all
MaxEvents == 2
\* ticks the clock advances after the first start of the process
MaxTicks == 1
\* resolution of the clock
TicksPerSecond == 2
\* the clock at the first start; the sessions of a file found then end by it
BootTime == 2
MaxTime == BootTime + MaxTicks

\* ---- the world the events are drawn from --------------------------------
UserIDs == {"u1", "u2"}
ActivityTypeGame == "game"
Activities ==
  { [Name |-> "Chess", Type |-> "game"],
    [Name |-> "Go", Type |-> "game"],
    [Name |-> "Go", Type |-> "listening"] }
\* the presence snapshots delivered: the sets of games, and one with an
\* activity that is no game
Snapshots ==
  { {},
    { [Name |-> "Chess", Type |-> "game"], [Name |-> "Go", Type |-> "listening"] },
    { [Name |-> "Go", Type |-> "game"] },
    { [Name |-> "Chess", Type |-> "game"], [Name |-> "Go", Type |-> "game"] } }
Contents == {"!mygames", "!cleargames", "hello"}

Main == 0
Handlers == 1 .. MaxHandlers
Callers == {Main} \cup Handlers
Unlocked == -1

VARIABLES
  Users,        \* data.Users: user id -> UserGameData, for the ids in the map
  mu,           \* data.mu: Unlocked, or the goroutine that locked it
  file,         \* game_data.json
  now,          \* the last reading of the clock by time.Now()
  pc,           \* where each goroutine is
  ev,           \* the event each handler goroutine was invoked with
  resp,         \* what a messageCreate handler sent to the channel
  saved,        \* what the last call of save returned: "nil", "error", or "none"
  events,       \* how many events the session has delivered
  lastSnap,     \* history: the game names of the last snapshot reconciled per user,
                \*          once its presenceUpdate has returned
  transitions,  \* history: present-to-absent transitions reconciled per user
  loaded,       \* history: number of Sessions each user had after load
  lastOp,       \* history: the last Ledger operation carried out per user
  loadErr       \* what data.load() returned to init(): "nil" or "error"

vars == << Users, mu, file, now, pc, ev, resp, saved, events,
           lastSnap, transitions, loaded, lastOp, loadErr >>

hist == << lastSnap, transitions, loaded, lastOp, loadErr >>

\* ---- values ---------------------------------------------------------------
NoGames == [g \in {} |-> 0]
NoUsers == [u \in {} |-> 0]

\* &UserGameData{Sessions: []GameSession{}, ActiveGames: make(map[string]time.Time)}
NewUserGameData == [Sessions |-> << >>, ActiveGames |-> NoGames]

\* time.Duration(session.Duration) * time.Second: the float64 seconds are
\* converted to an integer (truncated) before they are scaled to a Duration
WholeSeconds(duration) == (duration \div TicksPerSecond) * TicksPerSecond

\* a GameSession whose Duration keeps the whole seconds only
GameSessionWholeSeconds(gameName, startTime, endTime) ==
  [GameName |-> gameName, StartTime |-> startTime, EndTime |-> endTime,
   Duration |-> WholeSeconds(endTime - startTime)]

\* GameSession built when a game stops; Duration = endTime.Sub(startTime).Seconds()
GameSession(gameName, startTime, endTime) ==
  [GameName |-> gameName, StartTime |-> startTime, EndTime |-> endTime,
   Duration |-> endTime - startTime]

\* a Lock that excludes nobody
CanLockAlways(m) == TRUE

\* sync.Mutex.Lock proceeds only on an unlocked mutex, whoever locked it
CanLock(m) == m = Unlocked

\* currentActivities: the names of the game-typed activities of the update
CurrentActivities(activities) ==
  { a.Name : a \in { b \in activities : b.Type = ActivityTypeGame } }

\* a first loop that takes every game with a timer for stopped
StoppedGamesAll(userData, current) == DOMAIN userData.ActiveGames

\* the games the first loop of presenceUpdate finds stopped
StoppedGames(userData, current) == (DOMAIN userData.ActiveGames) \ current

\* a second loop that takes every game of the update for started
StartedGamesAll(userData, current) == current

\* the games the second loop of presenceUpdate finds started
StartedGames(userData, current) == current \ (DOMAIN userData.ActiveGames)

\* a closure that puts the new session in front of the others
StopGamePrepending(userData, gameName, endTime) ==
  [Sessions |-> << GameSession(gameName, userData.ActiveGames[gameName], endTime) >>
                \o userData.Sessions,
   ActiveGames |-> [g \in (DOMAIN userData.ActiveGames) \ {gameName}
                      |-> userData.ActiveGames[g]]]

\* userData.Sessions = append(userData.Sessions, session); delete(ActiveGames, g)
StopGame(userData, gameName, endTime) ==
  [Sessions |-> Append(userData.Sessions,
                       GameSession(gameName, userData.ActiveGames[gameName], endTime)),
   ActiveGames |-> [g \in (DOMAIN userData.ActiveGames) \ {gameName}
                      |-> userData.ActiveGames[g]]]

\* userData.ActiveGames[gameName] = time.Now()
StartGame(userData, gameName, startTime) ==
  [Sessions |-> userData.Sessions,
   ActiveGames |-> [g \in (DOMAIN userData.ActiveGames) \cup {gameName}
                      |-> IF g = gameName THEN startTime ELSE userData.ActiveGames[g]]]

\* an assignment that stores the one record for every user of the map
PutUserForAll(users, userID, userData) ==
  [u \in (DOMAIN users) \cup {userID} |-> userData]

\* a get-or-create that makes the record and does not put it in the map
PutUserForgotten(users, userID, userData) == users

\* data.Users[userID] = userData
PutUser(users, userID, userData) ==
  [u \in (DOMAIN users) \cup {userID} |-> IF u = userID THEN userData ELSE users[u]]

\* a reset that empties the sessions and keeps the map of timers
ResetUserSessionsOnly(users, userID) ==
  PutUser(users, userID,
          [Sessions |-> << >>, ActiveGames |-> users[userID].ActiveGames])

\* data.Users[userID] = &UserGameData{Sessions: []GameSession{}, ActiveGames: make(...)}
ResetUser(users, userID) == PutUser(users, userID, NewUserGameData)

RECURSIVE SumPlayTime(_, _)
SumPlayTime(sessions, gameName) ==
  IF sessions = << >> THEN 0
  ELSE (IF Head(sessions).GameName = gameName
          THEN WholeSeconds(Head(sessions).Duration) ELSE 0)
       + SumPlayTime(Tail(sessions), gameName)

SessionGames(userData) ==
  { userData.Sessions[i].GameName : i \in 1 .. Len(userData.Sessions) }

\* gamePlayTimes of messageCreate, with time.Since read at t
GamePlayTimes(userData, t) ==
  [g \in SessionGames(userData) \cup DOMAIN userData.ActiveGames |->
     SumPlayTime(userData.Sessions, g)
     + (IF g \in DOMAIN userData.ActiveGames THEN t - userData.ActiveGames[g] ELSE 0)]

\* the "!mygames" branch: no-data message, or the play times
NoData(users, userID) ==
  userID \notin DOMAIN users \/ Len(users[userID].Sessions) = 0

MyGames(users, userID, t) ==
  IF NoData(users, userID)
    THEN [kind |-> "nodata", times |-> NoGames]
    ELSE [kind |-> "times", times |-> GamePlayTimes(users[userID], t)]

NoResp == [kind |-> "none", times |-> NoGames]

\* a marshalling that exports ActiveGames as well
MarshalUserWithActiveGames(userData) ==
  [sessions |-> userData.Sessions, active_games |-> userData.ActiveGames]

\* json.MarshalIndent(tempUsers): per user the fields the struct tags export
MarshalUser(userData) == [sessions |-> userData.Sessions]

Marshal(users) == [u \in DOMAIN users |-> MarshalUser(users[u])]

\* json.Unmarshal into map[string]*UserGameData, then ActiveGames re-made
UnmarshalUser(obj) == [Sessions |-> obj.sessions, ActiveGames |-> NoGames]

NoFile == [kind |-> "absent", data |-> NoUsers]
Corrupt == [kind |-> "corrupt", data |-> NoUsers]
JsonFile(users) == [kind |-> "json", data |-> Marshal(users)]

\* a load that keeps the user it had read before the data turned out bad
LoadPartly(f) ==
  IF f.kind = "json"
    THEN [u \in DOMAIN f.data |-> UnmarshalUser(f.data[u])]
    ELSE IF f.kind = "corrupt" THEN [u \in {"u1"} |-> NewUserGameData]
    ELSE NoUsers

\* DataStore.load on the empty DataStore made by init: data.Users gets the
\* users of tempUsers only after json.Unmarshal has returned no error
Load(f) ==
  IF f.kind = "json"
    THEN [u \in DOMAIN f.data |-> UnmarshalUser(f.data[u])]
    ELSE NoUsers

\* what DataStore.load returns: nil for a file that does not exist or that
\* unmarshals, an error for one that does not unmarshal
LoadError(f) == IF f.kind = "corrupt" THEN "error" ELSE "nil"

\* the files the first start of the process may find: none, or what a save
\* wrote for a store of users with well-formed sessions (an unreadable file
\* is what a failed write leaves to the next start)
StoredUsers ==
  { [u \in {"u1", "u2"} |->
       IF u = "u2" THEN NewUserGameData
       ELSE [Sessions |-> << GameSession("Chess", 0, 1), GameSession("Go", 0, 2),
                             GameSession("Chess", 1, 2) >>,
             ActiveGames |-> NoGames]] }

InitialFiles == {NoFile} \cup { JsonFile(us) : us \in StoredUsers }


\* ---- events and goroutines ----------------------------------------------
NoEvent == [kind |-> "none", UserID |-> "", Activities |-> {}, Content |-> ""]

PresenceEvent(userID, activities) ==
  [kind |-> "presence", UserID |-> userID, Activities |-> activities, Content |-> ""]

MessageEvent(userID, content) ==
  [kind |-> "message", UserID |-> userID, Activities |-> {}, Content |-> content]

SessionCounts(users) ==
  [u \in UserIDs |-> IF u \in DOMAIN users THEN Len(users[u].Sessions) ELSE 0]

\* the goroutines of a process that has just started: main() has opened the
\* session and waits for a signal, no handler is running
StartPc == [c \in Callers |-> IF c = Main THEN "running" ELSE "idle"]
NoEvents == [h \in Handlers |-> NoEvent]
NoResps == [h \in Handlers |-> NoResp]
NoTransitions == [u \in UserIDs |-> 0]
NoOps == [u \in UserIDs |-> "none"]

\* init(): an empty DataStore, then data.load()
Init ==
  /\ file \in InitialFiles
  /\ now = BootTime
  /\ events = 0
  /\ Users = Load(file)
  /\ mu = Unlocked
  /\ pc = StartPc
  /\ ev = NoEvents
  /\ resp = NoResps
  /\ saved = "none"
  /\ lastSnap = NoUsers
  /\ transitions = NoTransitions
  /\ loaded = SessionCounts(Load(file))
  /\ lastOp = NoOps
  /\ loadErr = LoadError(file)

\* the session delivers events from dg.Open() until dg.Close()
Delivering == pc[Main] \in {"running", "save_lock", "save_write", "close"}

\* time.Now(): a reading not before the last reading of the clock
Now == now .. MaxTime

\* the session runs each handler in a goroutine of its own; which idle one
\* is of no consequence, so the first is taken
Spawn(h) ==
  /\ Delivering
  /\ events < MaxEvents
  /\ pc[h] = "idle"
  /\ \A k \in Handlers : k < h => pc[k] # "idle"

\* presenceUpdate is invoked: a bot's update returns at once
PresenceUpdate(h, userID, bot, activities) ==
  /\ Spawn(h)
  /\ events' = events + 1
  /\ resp' = [resp EXCEPT ![h] = NoResp]
  /\ IF bot
       THEN UNCHANGED << pc, ev >>
       ELSE /\ pc' = [pc EXCEPT ![h] = "lock"]
            /\ ev' = [ev EXCEPT ![h] = PresenceEvent(userID, activities)]
  /\ UNCHANGED << Users, mu, file, now, saved, hist >>

\* messageCreate is invoked: the bot's own messages and texts that are no
\* command return at once
MessageCreate(h, userID, self, content) ==
  /\ Spawn(h)
  /\ events' = events + 1
  /\ resp' = [resp EXCEPT ![h] = NoResp]
  /\ IF self \/ content \notin {"!mygames", "!cleargames"}
       THEN UNCHANGED << pc, ev >>
       ELSE /\ pc' = [pc EXCEPT ![h] = "lock"]
            /\ ev' = [ev EXCEPT ![h] = MessageEvent(userID, content)]
  /\ UNCHANGED << Users, mu, file, now, saved, hist >>

\* presenceUpdate: data.mu.Lock(), get or create the user data, collect
\* currentActivities
PresenceLock(h) ==
  /\ pc[h] = "lock"
  /\ ev[h].kind = "presence"
  /\ CanLock(mu)
  /\ mu' = h
  /\ LET u == ev[h].UserID
         current == CurrentActivities(ev[h].Activities)
     IN /\ Users' = IF u \in DOMAIN Users THEN Users
                    ELSE PutUser(Users, u, NewUserGameData)
        /\ transitions' =
             [transitions EXCEPT ![u] =
                @ + (IF u \in DOMAIN lastSnap
                       THEN Cardinality(lastSnap[u] \ current) ELSE 0)]
        /\ lastOp' = [lastOp EXCEPT ![u] = "presence"]
  /\ pc' = [pc EXCEPT ![h] = "games"]
  /\ UNCHANGED << file, now, ev, resp, saved, events, loaded, lastSnap, loadErr >>

\* presenceUpdate, first loop: one game that has stopped becomes a session,
\* then data.save() is called
GameStopped(h) ==
  /\ pc[h] = "games"
  /\ LET u == ev[h].UserID
         current == CurrentActivities(ev[h].Activities)
     IN \E g \in StoppedGames(Users[u], current), endTime \in Now :
          /\ now' = endTime
          /\ Users' = PutUser(Users, u, StopGame(Users[u], g, endTime))
  /\ pc' = [pc EXCEPT ![h] = "save_lock"]
  /\ UNCHANGED << mu, file, ev, resp, saved, events, hist >>

\* the first loop of presenceUpdate is over: it is in its second loop, or in
\* its first with no game left that has stopped
FirstLoopDone(h) ==
  \/ pc[h] = "started"
  \/ /\ pc[h] = "games"
     /\ StoppedGames(Users[ev[h].UserID], CurrentActivities(ev[h].Activities)) = {}

\* presenceUpdate, second loop: one game that has started gets a timer
GameStarted(h) ==
  /\ FirstLoopDone(h)
  /\ LET u == ev[h].UserID
         current == CurrentActivities(ev[h].Activities)
     IN \E g \in StartedGames(Users[u], current), startTime \in Now :
          /\ now' = startTime
          /\ Users' = PutUser(Users, u, StartGame(Users[u], g, startTime))
  /\ pc' = [pc EXCEPT ![h] = "started"]
  /\ UNCHANGED << mu, file, ev, resp, saved, events, hist >>

\* presenceUpdate returns; the deferred Unlock runs
PresenceReturn(h) ==
  /\ FirstLoopDone(h)
  /\ StartedGames(Users[ev[h].UserID], CurrentActivities(ev[h].Activities)) = {}
  /\ lastSnap' = PutUser(lastSnap, ev[h].UserID, CurrentActivities(ev[h].Activities))
  /\ mu' = Unlocked
  /\ pc' = [pc EXCEPT ![h] = "idle"]
  /\ ev' = [ev EXCEPT ![h] = NoEvent]
  /\ UNCHANGED << Users, file, now, resp, saved, events, transitions, loaded, lastOp,
                  loadErr >>

\* messageCreate: data.mu.Lock() of either command
MessageLock(h) ==
  /\ pc[h] = "lock"
  /\ ev[h].kind = "message"
  /\ CanLock(mu)
  /\ mu' = h
  /\ pc' = [pc EXCEPT ![h] = IF ev[h].Content = "!mygames" THEN "mygames"
                              ELSE "cleargames"]
  /\ UNCHANGED << Users, file, now, ev, resp, saved, events, hist >>

\* a report that closes a timer of its user as it adds the timer's time
MyGamesReplyClosingTimer(h) ==
  /\ pc[h] = "mygames"
  /\ \E t \in Now :
       /\ now' = t
       /\ resp' = [resp EXCEPT ![h] = MyGames(Users, ev[h].UserID, t)]
       /\ Users' =
            IF ev[h].UserID \in DOMAIN Users
               /\ DOMAIN Users[ev[h].UserID].ActiveGames # {}
              THEN PutUser(Users, ev[h].UserID,
                           StopGame(Users[ev[h].UserID],
                                    CHOOSE g \in DOMAIN Users[ev[h].UserID].ActiveGames : TRUE,
                                    t))
              ELSE Users
  /\ mu' = Unlocked
  /\ pc' = [pc EXCEPT ![h] = "idle"]
  /\ ev' = [ev EXCEPT ![h] = NoEvent]
  /\ UNCHANGED << file, saved, events, hist >>

\* messageCreate, "!mygames": the reply is computed and sent, the handler
\* returns and the deferred Unlock runs
MyGamesReply(h) ==
  /\ pc[h] = "mygames"
  /\ \E t \in Now :
       /\ now' = t
       /\ resp' = [resp EXCEPT ![h] = MyGames(Users, ev[h].UserID, t)]
  /\ mu' = Unlocked
  /\ pc' = [pc EXCEPT ![h] = "idle"]
  /\ ev' = [ev EXCEPT ![h] = NoEvent]
  /\ UNCHANGED << Users, file, saved, events, hist >>

\* messageCreate, "!cleargames": a known user's data is replaced and
\* data.save() is called; an unknown user is told there is nothing to clear
\* and the handler returns
ClearGames(h) ==
  /\ pc[h] = "cleargames"
  /\ LET u == ev[h].UserID
     IN /\ IF u \in DOMAIN Users
             THEN /\ Users' = ResetUser(Users, u)
                  /\ pc' = [pc EXCEPT ![h] = "save_lock"]
                  /\ UNCHANGED << resp, mu, ev >>
             ELSE /\ resp' = [resp EXCEPT ![h] = [kind |-> "nothing", times |-> NoGames]]
                  /\ pc' = [pc EXCEPT ![h] = "idle"]
                  /\ ev' = [ev EXCEPT ![h] = NoEvent]
                  /\ mu' = Unlocked
                  /\ UNCHANGED Users
        /\ lastOp' = [lastOp EXCEPT ![u] = "reset"]
  /\ UNCHANGED << file, now, saved, events, lastSnap, transitions, loaded, loadErr >>

\* ds.mu.Lock() of DataStore.save, called by a handler or by main
SaveLock(c) ==
  /\ pc[c] = "save_lock"
  /\ CanLock(mu)
  /\ mu' = c
  /\ pc' = [pc EXCEPT ![c] = "save_write"]
  /\ UNCHANGED << Users, file, now, ev, resp, saved, events, hist >>

\* where the caller of save goes on: main closes the session, presenceUpdate
\* goes on with its loops, "!cleargames" sends its reply and returns
AfterSave(c) ==
  IF c = Main THEN "close"
  ELSE IF ev[c].kind = "presence" THEN "games" ELSE "idle"

\* ioutil.WriteFile: the new content and no error, or an error that leaves
\* the old file (it could not be opened) or a truncated one
WriteFile(old, new) ==
  { [file |-> new, err |-> "nil"],
    [file |-> old, err |-> "error"],
    [file |-> Corrupt, err |-> "error"] }

\* DataStore.save: marshal the sessions, write the file, unlock, return
SaveWrite(c) ==
  /\ pc[c] = "save_write"
  /\ \E w \in WriteFile(file, JsonFile(Users)) :
       /\ file' = w.file
       /\ saved' = w.err
  /\ mu' = Unlocked
  /\ pc' = [pc EXCEPT ![c] = AfterSave(c)]
  /\ IF c \in Handlers /\ ev[c].kind = "message"
       THEN /\ resp' = [resp EXCEPT ![c] = [kind |-> "cleared", times |-> NoGames]]
            /\ ev' = [ev EXCEPT ![c] = NoEvent]
       ELSE UNCHANGED << resp, ev >>
  /\ UNCHANGED << Users, now, events, hist >>

\* main receives a signal and calls data.save()
Signal ==
  /\ pc[Main] = "running"
  /\ pc' = [pc EXCEPT ![Main] = "save_lock"]
  /\ UNCHANGED << Users, mu, file, now, ev, resp, saved, events, hist >>

\* dg.Close(), main returns: the process and all its goroutines end
Close ==
  /\ pc[Main] = "close"
  /\ pc' = [c \in Callers |-> IF c = Main THEN "exited" ELSE "idle"]
  /\ ev' = NoEvents
  /\ resp' = NoResps
  /\ Users' = NoUsers
  /\ mu' = Unlocked
  /\ UNCHANGED << file, now, saved, events, hist >>

\* the process is started again on the file the last one left: init()
Restart ==
  /\ pc[Main] = "exited"
  /\ Users' = Load(file)
  /\ mu' = Unlocked
  /\ pc' = StartPc
  /\ lastSnap' = NoUsers
  /\ transitions' = NoTransitions
  /\ loaded' = SessionCounts(Load(file))
  /\ lastOp' = NoOps
  /\ loadErr' = LoadError(file)
  /\ saved' = "none"
  /\ UNCHANGED << file, now, ev, resp, events >>

HandlerStep(h) ==
  \/ PresenceLock(h)
  \/ GameStopped(h)
  \/ GameStarted(h)
  \/ PresenceReturn(h)
  \/ MessageLock(h)
  \/ MyGamesReply(h)
  \/ ClearGames(h)

Next ==
  \/ \E h \in Handlers, u \in UserIDs, bot \in BOOLEAN, as \in Snapshots :
       PresenceUpdate(h, u, bot, as)
  \/ \E h \in Handlers, u \in UserIDs, self \in BOOLEAN, content \in Contents :
       MessageCreate(h, u, self, content)
  \/ \E h \in Handlers : HandlerStep(h)
  \/ \E c \in Callers : SaveLock(c)
  \/ \E c \in Callers : SaveWrite(c)
  \/ Signal
  \/ Close
  \/ Restart

Spec == Init /\ [][Next]_vars

\* The Go scheduler runs every runnable goroutine, and sync.Mutex hands the
\* mutex to a waiting goroutine (starvation mode), so a step that can be
\* taken again and again is taken.  Events and signals are under no
\* obligation to arrive.
FairSpec ==
  /\ Spec
  /\ \A h \in Handlers : SF_vars(HandlerStep(h))
  /\ \A c \in Callers : SF_vars(SaveLock(c)) /\ WF_vars(SaveWrite(c))
  /\ WF_vars(Close)

\* ---- the claims -----------------------------------------------------------

\* a goroutine that can take a step now
CanStep(c) ==
  \/ pc[c] \in {"lock", "save_lock"} /\ CanLock(mu)
  \/ pc[c] \in {"games", "started", "mygames", "cleargames", "save_write", "close"}

\* the process runs and none of its goroutines can take a step: what is left
\* waits for an event, for a signal, or for the mutex
Settled == pc[Main] # "exited" /\ \A c \in Callers : ~CanStep(c)

\* a goroutine between a Lock it has got and the Unlock that pairs with it
InCriticalSection(c) ==
  IF c = Main THEN pc[c] = "save_write"
  ELSE pc[c] \in {"games", "started", "mygames", "cleargames", "save_lock", "save_write"}

\* C1: no handler is ever stuck: a handler that has not returned can take
\* its next step, or waits for the mutex while the goroutine that holds it
\* can take its next step (handlers are straight-line code, so this is what
\* it takes for each of them to return and release the mutex).
C1_NoHandlerStuck ==
  \A h \in Handlers :
    pc[h] # "idle" =>
      \/ CanStep(h)
      \/ mu \in Callers /\ mu # h /\ CanStep(mu)

\* C2: a handler that calls save after closing a timer or clearing a user is
\* inside its exclusive section and its save can start there; no step
\* changes the Ledger while a save is in its critical section; and when a
\* handler's save returns without error the file holds, for every user of
\* the Ledger, exactly the user's sessions.
C2_HandlerSaveCarriedOut ==
  /\ [](\A h \in Handlers : pc[h] = "save_lock" => (mu = h /\ CanStep(h)))
  /\ [][ (\E c \in Callers : pc[c] = "save_write") =>
           (Users' = Users \/ pc'[Main] = "exited") ]_vars
  /\ [][ \A h \in Handlers :
           (pc[h] = "save_write" /\ pc'[h] # "save_write" /\ saved' = "nil") =>
             /\ file'.kind = "json"
             /\ DOMAIN file'.data = DOMAIN Users'
             /\ \A u \in DOMAIN Users' :
                  file'.data[u].sessions = Users'[u].Sessions ]_vars

\* C3: at most one goroutine is inside the critical section of data.mu at a
\* time, so no report and no second presence update runs while a presence
\* update is between its Lock and its Unlock.
C3_MutualExclusion ==
  \A c, d \in Callers : (InCriticalSection(c) /\ InCriticalSection(d)) => c = d

\* C3 witness: a presence update is in the middle of reconciling (a timer is
\* still to be opened) while a report for the same user waits for the mutex.
C3_Witness ==
  \E h, k \in Handlers :
    /\ pc[h] \in {"games", "started"}
    /\ StartedGames(Users[ev[h].UserID], CurrentActivities(ev[h].Activities)) # {}
    /\ pc[k] = "lock"
    /\ ev[k] = MessageEvent(ev[h].UserID, "!mygames")

\* C4: once the snapshots delivered for a user have been processed as far as
\* they ever will be, the user has as many sessions more than were loaded as
\* there were present-to-absent transitions in the snapshots reconciled.
C4_SessionsEqualTransitions ==
  Settled =>
    \A u \in UserIDs :
      lastOp[u] = "presence" =>
        SessionCounts(Users)[u] - loaded[u] = transitions[u]

\* a presenceUpdate that reconciles the snapshot its user's last one was
SameSnapshot(h) ==
  /\ pc[h] \in {"games", "started"}
  /\ ev[h].UserID \in DOMAIN lastSnap
  /\ lastSnap[ev[h].UserID] = CurrentActivities(ev[h].Activities)

\* C5: while a presence update reconciles a snapshot with the same games as
\* the last one reconciled for the user, no step changes the user's sessions
\* or timers (the end of the process apart, which ends the Ledger).
C5_SameSnapshotNoChange ==
  [][ \A h \in Handlers :
        SameSnapshot(h) =>
          \/ pc'[Main] = "exited"
          \/ /\ ev[h].UserID \in DOMAIN Users'
             /\ Users'[ev[h].UserID] = Users[ev[h].UserID] ]_vars

\* C5 witness: such an update holds the mutex, for a user with a timer that
\* was started before the last reading of the clock.
C5_Witness ==
  \E h \in Handlers :
    /\ SameSnapshot(h)
    /\ \E g \in DOMAIN Users[ev[h].UserID].ActiveGames :
         Users[ev[h].UserID].ActiveGames[g] < now

AllSessions ==
  UNION { { Users[u].Sessions[i] : i \in 1 .. Len(Users[u].Sessions) } :
          u \in DOMAIN Users }

\* C6: every session in the Ledger ends no earlier than it starts and has
\* the duration end - start; and a step that stops a game appends a session
\* that starts when the timer it closes started and ends at the clock's reading.
C6_DurationIsEndMinusStart ==
  /\ [](\A x \in AllSessions :
          x.EndTime >= x.StartTime /\ x.Duration = x.EndTime - x.StartTime)
  /\ [][ \A h \in Handlers :
           (pc[h] = "games" /\ pc'[h] = "save_lock") =>
             LET u == ev[h].UserID
                 x == Users'[u].Sessions[Len(Users'[u].Sessions)]
             IN /\ Len(Users'[u].Sessions) = Len(Users[u].Sessions) + 1
                /\ x.GameName \in DOMAIN Users[u].ActiveGames
                /\ x.StartTime = Users[u].ActiveGames[x.GameName]
                /\ x.EndTime = now' ]_vars

\* C6 witness: a game was stopped after part of a second and became a session.
C6_Witness ==
  \E h \in Handlers :
    /\ pc[h] = "save_lock"
    /\ ev[h].kind = "presence"
    /\ LET ss == Users[ev[h].UserID].Sessions
       IN ss # << >> /\ ss[Len(ss)].Duration = 1 /\ ss[Len(ss)].EndTime = now

\* the step in which a "!mygames" handler sends its reply
Replies(h) == pc[h] = "mygames" /\ resp'[h].kind \in {"nodata", "times"}

\* C7: a report for a user without sessions who has a timer that started
\* before the time of the report shows that game with the time since then.
C7_OpenTimerReported ==
  [][ \A h \in Handlers :
        (/\ Replies(h)
         /\ ev[h].UserID \in DOMAIN Users
         /\ Users[ev[h].UserID].Sessions = << >>) =>
          \A g \in DOMAIN Users[ev[h].UserID].ActiveGames :
            now' > Users[ev[h].UserID].ActiveGames[g] =>
              /\ resp'[h].kind = "times"
              /\ g \in DOMAIN resp'[h].times
              /\ resp'[h].times[g] = now' - Users[ev[h].UserID].ActiveGames[g]
              /\ resp'[h].times[g] > 0 ]_vars

RECURSIVE SumDuration(_, _)
\* the sum of the durations of the sessions of one game
SumDuration(sessions, gameName) ==
  IF sessions = << >> THEN 0
  ELSE (IF Head(sessions).GameName = gameName THEN Head(sessions).Duration ELSE 0)
       + SumDuration(Tail(sessions), gameName)

\* C8: a report for a user with sessions shows exactly the games of the
\* sessions and the timers, each with the sum of its sessions' durations
\* plus the time since its timer started.
C8_ReportTotals ==
  [][ \A h \in Handlers :
        (/\ Replies(h)
         /\ ev[h].UserID \in DOMAIN Users
         /\ Users[ev[h].UserID].Sessions # << >>) =>
          LET userData == Users[ev[h].UserID]
          IN /\ resp'[h].kind = "times"
             /\ DOMAIN resp'[h].times =
                  SessionGames(userData) \cup DOMAIN userData.ActiveGames
             /\ \A g \in DOMAIN resp'[h].times :
                  resp'[h].times[g] =
                    SumDuration(userData.Sessions, g)
                    + (IF g \in DOMAIN userData.ActiveGames
                         THEN now' - userData.ActiveGames[g] ELSE 0) ]_vars

\* the step in which a save returns without error
SaveSucceeds ==
  \E c \in Callers : pc[c] = "save_write" /\ pc'[c] # "save_write" /\ saved' = "nil"

\* C9: what a successful save of the Ledger wrote loads as a Ledger of the
\* same users, each with the same sessions in the same order and no open
\* timer; and a file a save wrote holds nothing but the sessions.
C9_SaveLoadRoundTrip ==
  /\ [][ SaveSucceeds =>
           /\ DOMAIN Load(file') = DOMAIN Users
           /\ \A u \in DOMAIN Users :
                /\ Load(file')[u].Sessions = Users[u].Sessions
                /\ DOMAIN Load(file')[u].ActiveGames = {} ]_vars
  /\ [](file.kind = "json" =>
          \A u \in DOMAIN file.data : DOMAIN file.data[u] = {"sessions"})

\* C9 witness: a save succeeded for a Ledger in which a user has sessions
\* and a user has an open timer.
C9_Witness ==
  /\ saved = "nil"
  /\ pc[Main] = "close"
  /\ file = JsonFile(Users)
  /\ \E u \in DOMAIN Users : Users[u].Sessions # << >>
  /\ \E u \in DOMAIN Users : DOMAIN Users[u].ActiveGames # {}

\* C10: a report for a user whose last Ledger operation is a reset replies
\* no-data, and no such report is left without a reply once the process has
\* done all it can.
C10_ResetThenReport ==
  /\ [][ \A h \in Handlers :
           (Replies(h) /\ lastOp[ev[h].UserID] = "reset") =>
             resp'[h].kind = "nodata" ]_vars
  /\ [](Settled =>
          \A h \in Handlers, u \in UserIDs :
            ~(/\ pc[h] = "lock"
              /\ ev[h] = MessageEvent(u, "!mygames")
              /\ lastOp[u] = "reset"))

\* the step in which the file write of c's save fails and save returns
SaveFails(c) ==
  /\ pc[c] = "save_write"
  /\ pc'[c] # "save_write"
  /\ pc'[Main] # "exited"
  /\ saved' = "error"

\* C11: a save whose file write fails leaves the Ledger as it is, is not
\* tried again, and its caller goes on where an untroubled save would leave
\* it; and a presence update that has closed a timer and called save is not
\* left for good short of the timers its snapshot has yet to open.
C11_FailedSaveKeepsMutation ==
  /\ [][ \A c \in Callers :
           SaveFails(c) =>
             /\ Users' = Users
             /\ pc'[c] = AfterSave(c)
             /\ pc'[c] # "save_lock" ]_vars
  /\ [](Settled =>
          \A h \in Handlers :
            ~(/\ pc[h] = "save_lock"
              /\ ev[h].kind = "presence"
              /\ StartedGames(Users[ev[h].UserID],
                              CurrentActivities(ev[h].Activities)) # {}))

\* the state init() leaves to main(): nothing has touched the Ledger or the
\* file since data.load() returned
JustLoaded == pc[Main] = "running" /\ lastOp = NoOps

\* C12: after a start of the process on no file, load has returned no error
\* and the Ledger is empty; after a start on a file that is not valid data,
\* load has returned an error, the Ledger is empty and the process runs.
C12_LoadOutcomes ==
  /\ [](JustLoaded =>
          /\ file.kind = "absent" => (loadErr = "nil" /\ Users = NoUsers)
          /\ file.kind = "corrupt" => (loadErr = "error" /\ Users = NoUsers))
  /\ [][ (pc[Main] = "exited" /\ pc'[Main] # "exited" /\ file.kind # "json") =>
           /\ Users' = NoUsers
           /\ pc' = StartPc
           /\ loadErr' = (IF file.kind = "corrupt" THEN "error" ELSE "nil") ]_vars

\* C12 witness: the process was started on an unreadable file and has gone
\* on to reconcile a presence update into its empty Ledger.
C12_Witness ==
  /\ loadErr = "error"
  /\ file.kind = "corrupt"
  /\ pc[Main] = "running"
  /\ \E u \in UserIDs : lastOp[u] = "presence" /\ u \in DOMAIN Users

\* C13: main closes the session only when its save has returned, the process
\* ends only by closing the session, and a main that has received the signal
\* is not left for good waiting to begin its save.
C13_ShutdownSavesThenCloses ==
  /\ [][ (pc[Main] # "close" /\ pc'[Main] = "close") => pc[Main] = "save_write" ]_vars
  /\ [][ (pc[Main] # "exited" /\ pc'[Main] = "exited") => pc[Main] = "close" ]_vars
  /\ [](Settled => pc[Main] # "save_lock")

\* a presenceUpdate that is past its get-or-create
Reconciling(h) ==
  /\ ev[h].kind = "presence"
  /\ pc[h] \in {"games", "started", "save_lock", "save_write"}

\* C14, as amended: a user is in the Ledger, with a record of sessions and
\* timers, once a presence update for the user has got to its get-or-create,
\* and so when one has returned; no step of the running process takes a user
\* out of the Ledger; and a report for a user who is not in the Ledger does
\* not put the user there.
C14_UserInLedgerOncePresent ==
  /\ [](\A h \in Handlers : Reconciling(h) => ev[h].UserID \in DOMAIN Users)
  /\ [](pc[Main] # "exited" => \A u \in DOMAIN lastSnap : u \in DOMAIN Users)
  /\ [](\A u \in DOMAIN Users : DOMAIN Users[u] = {"Sessions", "ActiveGames"})
  /\ [][ \A u \in DOMAIN Users : pc'[Main] # "exited" => u \in DOMAIN Users' ]_vars
  /\ [][ \A h \in Handlers :
           (Replies(h) /\ ev[h].UserID \notin DOMAIN Users) =>
             ev[h].UserID \notin DOMAIN Users' ]_vars

\* C14 witness: a process started on no file has reconciled a presence
\* update for u1 and then answered a report, and u1 is the Ledger's one user.
C14_Witness ==
  /\ file.kind = "absent"
  /\ "u1" \in DOMAIN lastSnap
  /\ DOMAIN Users = {"u1"}
  /\ \E h \in Handlers : resp[h].kind = "nodata"

\* C14, as claimed: a user is in the Ledger once a presence update for the
\* user has got to its get-or-create, and once the user's report has been
\* answered; and no step of the running process takes a user out of the Ledger.
C14_UserInLedgerOnceSeenOrQueried ==
  /\ [](\A h \in Handlers : Reconciling(h) => ev[h].UserID \in DOMAIN Users)
  /\ [][ \A u \in DOMAIN Users : pc'[Main] # "exited" => u \in DOMAIN Users' ]_vars
  /\ [][ \A h \in Handlers : Replies(h) => ev[h].UserID \in DOMAIN Users' ]_vars

\* a "!cleargames" handler that has replaced its user's record and has not
\* returned
HasReset(h) ==
  /\ ev[h].kind = "message"
  /\ ev[h].Content = "!cleargames"
  /\ pc[h] \in {"save_lock", "save_write"}

\* C15: the step of a reset for a user in the Ledger leaves the user with no
\* session and no timer, whatever timers the user had; and from then on, as
\* long as the reset has not returned and while it is the user's last Ledger
\* operation, the user has no session and no timer.
C15_ResetDiscardsTimers ==
  /\ [][ \A h \in Handlers :
           (/\ pc[h] = "cleargames"
            /\ pc'[h] # "cleargames"
            /\ pc'[Main] # "exited"
            /\ ev[h].UserID \in DOMAIN Users) =>
             /\ ev[h].UserID \in DOMAIN Users'
             /\ Users'[ev[h].UserID].Sessions = << >>
             /\ DOMAIN Users'[ev[h].UserID].ActiveGames = {} ]_vars
  /\ [](\A h \in Handlers :
          HasReset(h) =>
            /\ Users[ev[h].UserID].Sessions = << >>
            /\ DOMAIN Users[ev[h].UserID].ActiveGames = {})
  /\ [](\A u \in DOMAIN Users :
          lastOp[u] = "reset" =>
            /\ Users[u].Sessions = << >>
            /\ DOMAIN Users[u].ActiveGames = {})

\* C15 witness: a reset has replaced the record of a user whose last
\* snapshot had games, so that the user had open timers when it ran.
C15_Witness ==
  \E h \in Handlers :
    /\ HasReset(h)
    /\ ev[h].UserID \in DOMAIN lastSnap
    /\ lastSnap[ev[h].UserID] # {}
    /\ Users[ev[h].UserID] = NewUserGameData

\* a step of the "!mygames" handler h
ReportStep(h) ==
  /\ ev[h].kind = "message"
  /\ ev[h].Content = "!mygames"
  /\ pc'[h] # pc[h]
  /\ pc'[Main] # "exited"

\* C16: no step of a report changes the Ledger (no user's sessions, timers
\* or timer starts) or the file.
C16_ReportReadOnly ==
  [][ \A h \in Handlers : ReportStep(h) => (Users' = Users /\ file' = file) ]_vars

\* C16 witness: a report has been answered with a time that includes the
\* time since a timer of the user started, and the timer is still open.
C16_Witness ==
  \E h \in Handlers, u \in DOMAIN Users :
    /\ pc[h] = "idle"
    /\ resp[h].kind = "times"
    /\ Users[u].Sessions # << >>
    /\ \E g \in DOMAIN Users[u].ActiveGames :
         /\ g \in DOMAIN resp[h].times
         /\ resp[h].times[g] > SumPlayTime(Users[u].Sessions, g)

\* sequence s is the beginning of sequence t
IsPrefix(s, t) ==
  /\ Len(s) <= Len(t)
  /\ \A i \in 1 .. Len(s) : t[i] = s[i]

\* the step of a reset that replaces the record of user u
ResetStep(u) ==
  \E h \in Handlers :
    /\ pc[h] = "cleargames"
    /\ pc'[h] # "cleargames"
    /\ ev[h].UserID = u

\* C17: in every step of the running process, each user's sessions stay as
\* they are, in their order, with at most one session added after them, which
\* ends no earlier than the session before it; or the step is the user's
\* reset and leaves the user no session.
C17_SessionsAppendOnly ==
  [][ \A u \in DOMAIN Users :
        pc'[Main] # "exited" =>
          /\ u \in DOMAIN Users'
          /\ LET old == Users[u].Sessions
                 new == Users'[u].Sessions
             IN \/ new = old
                \/ /\ Len(new) = Len(old) + 1
                   /\ IsPrefix(old, new)
                   /\ old # << >> => new[Len(new)].EndTime >= old[Len(old)].EndTime
                   /\ ~ResetStep(u)
                \/ /\ ResetStep(u)
                   /\ new = << >> ]_vars

\* C17 witness: a presence update has added a session after the sessions the
\* user had, and is in its call of save.
C17_Witness ==
  \E h \in Handlers :
    /\ pc[h] = "save_lock"
    /\ ev[h].kind = "presence"
    /\ Len(Users[ev[h].UserID].Sessions) > loaded[ev[h].UserID]
    /\ loaded[ev[h].UserID] > 0

\* C18: a presence update that has opened a timer opens its next timer with
\* the same start: the clock reading `now` it opened the first with (no other
\* goroutine reads the clock while the update holds the mutex).
C18_SingleTimestamp ==
  [][ \A h \in Handlers :
        (pc[h] = "started" /\ pc'[h] = "started") =>
          LET u == ev[h].UserID
          IN \A g \in (DOMAIN Users'[u].ActiveGames) \ (DOMAIN Users[u].ActiveGames) :
               Users'[u].ActiveGames[g] = now ]_vars

\* the timers of the user of presenceUpdate h that the update is to keep:
\* those of the games in its snapshot
KeptTimers(h) ==
  IF ev[h].UserID \in DOMAIN Users
    THEN (DOMAIN Users[ev[h].UserID].ActiveGames)
           \cap CurrentActivities(ev[h].Activities)
    ELSE {}

\* C19: the step in which a presence update returns leaves its user with
\* timers for exactly the games of its snapshot; and no step taken while a
\* presence update is in its critical section, or entering it, changes the
\* start of a timer its user has for a game of the snapshot.
C19_TimersEqualSnapshot ==
  /\ [][ \A h \in Handlers :
           (/\ ev[h].kind = "presence"
            /\ pc[h] \in {"games", "started"}
            /\ pc'[h] = "idle"
            /\ pc'[Main] # "exited") =>
             /\ ev[h].UserID \in DOMAIN Users'
             /\ DOMAIN Users'[ev[h].UserID].ActiveGames =
                  CurrentActivities(ev[h].Activities) ]_vars
  /\ [][ \A h \in Handlers :
           (/\ ev[h].kind = "presence"
            /\ (mu = h \/ mu' = h)
            /\ pc'[Main] # "exited") =>
             \A g \in KeptTimers(h) :
               /\ g \in DOMAIN Users'[ev[h].UserID].ActiveGames
               /\ Users'[ev[h].UserID].ActiveGames[g] =
                    Users[ev[h].UserID].ActiveGames[g] ]_vars

\* C19 witness: a presence update with two games, for a user whose last
\* snapshot had one of them, has kept that game's timer with its older start,
\* has opened a timer for the other, and is about to return.
C19_Witness ==
  \E h \in Handlers :
    /\ pc[h] = "started"
    /\ ev[h].UserID \in DOMAIN lastSnap
    /\ Cardinality(lastSnap[ev[h].UserID]) = 1
    /\ Cardinality(CurrentActivities(ev[h].Activities)) = 2
    /\ DOMAIN Users[ev[h].UserID].ActiveGames = CurrentActivities(ev[h].Activities)
    /\ \E g \in lastSnap[ev[h].UserID], k \in CurrentActivities(ev[h].Activities) :
         Users[ev[h].UserID].ActiveGames[g] < Users[ev[h].UserID].ActiveGames[k]

\* a step taken while handler h is in its critical section, or by which it
\* enters it
InHandler(h) ==
  /\ ev[h].kind # "none"
  /\ (mu = h \/ mu' = h)
  /\ pc'[Main] # "exited"

\* the step in which the session delivers an event that its handler discards
\* at once: a presence update of a bot, the bot's own message, a text that is
\* no command
Discarded == events' # events /\ pc' = pc

\* C20: no step of the handler of an event of user u, from its Lock to its
\* Unlock, changes the record of another user or puts another user in the
\* Ledger; and an event that is discarded, as a bot's presence update is,
\* changes neither the Ledger, nor the file, nor the mutex.
C20_OtherUsersUntouched ==
  /\ [][ \A h \in Handlers :
           InHandler(h) =>
             \A v \in UserIDs \ {ev[h].UserID} :
               /\ v \in DOMAIN Users <=> v \in DOMAIN Users'
               /\ v \in DOMAIN Users => Users'[v] = Users[v] ]_vars
  /\ [][ Discarded => (Users' = Users /\ file' = file /\ mu' = mu) ]_vars
  /\ [][ events' # events => (Users' = Users /\ file' = file) ]_vars

\* C20 witness: a presence update of u2 has opened a timer for u2 while u1
\* has sessions and an open timer.
C20_Witness ==
  \E h \in Handlers :
    /\ pc[h] = "started"
    /\ ev[h].UserID = "u2"
    /\ "u1" \in DOMAIN Users
    /\ Users["u1"].Sessions # << >>
    /\ DOMAIN Users["u1"].ActiveGames # {}

====
